---- MODULE Spec2Model ----
(***************************************************************************)
(* Model of MetadataStorageFromPlainRewritableObjectStorage.cpp:           *)
(* the marker-file loader (loadPathPrefixMap), the object's constructor    *)
(* and destructor, and the direct-children resolver                        *)
(* (getDirectChildrenOnRewritableDisk), alone and at the same time as      *)
(* insertions into the shared Path Map.                                    *)
(*                                                                         *)
(* Strings are sequences of one-character strings, so that find, substr,   *)
(* starts_with and the path comparison act on characters as in the code.   *)
(***************************************************************************)
EXTENDS Integers, Sequences, FiniteSets, TLC

(***************************************************************************)
(* Bounds of the model.                                                    *)
(***************************************************************************)
\* Number of marker objects the iteration of the object store meets.
MaxMarkers == 2
\* Number of directories the key-generation collaborator adds after attach.
MaxInserts == 1
\* Number of Path Map entries of a resolver query.
MaxEntries == 2
\* Number of remote entries in the listing of a resolver query.
MaxListing == 4
\* Number of threads that list directories at the same time.
MaxListers == 2

(***************************************************************************)
(* Characters and strings.                                                 *)
(***************************************************************************)
Alphabet == <<"a", "b", "c", "d", "e", "f", "g", "h", "i", "j", "k", "l", "m",
              "n", "o", "p", "q", "r", "s", "t", "u", "v", "w", "x", "y", "z">>

\* The byte value of a character (char_traits<char>::compare works on bytes).
CharCode(c) ==
    CASE c = "-" -> 45
      [] c = "." -> 46
      [] c = "/" -> 47
      [] OTHER -> 96 + (CHOOSE i \in 1..Len(Alphabet) : Alphabet[i] = c)

Min(a, b) == IF a <= b THEN a ELSE b

\* std::string::npos, the "not found" result of find.
npos == 0 - 1

\* std::string::compare: -1, 0 or 1.
RECURSIVE StrCompare(_, _)
StrCompare(s, t) ==
    IF s = <<>> /\ t = <<>> THEN 0
    ELSE IF s = <<>> THEN 0 - 1
    ELSE IF t = <<>> THEN 1
    ELSE IF CharCode(Head(s)) < CharCode(Head(t)) THEN 0 - 1
    ELSE IF CharCode(Head(s)) > CharCode(Head(t)) THEN 1
    ELSE StrCompare(Tail(s), Tail(t))

\* std::string::starts_with.
starts_with(s, p) == Len(p) <= Len(s) /\ SubSeq(s, 1, Len(p)) = p

\* std::string::find(ch, pos): the 0-based index of the first ch at or after pos.
find(s, ch, pos) ==
    IF \E i \in (pos + 1)..Len(s) : s[i] = ch
    THEN (CHOOSE i \in (pos + 1)..Len(s) :
              s[i] = ch /\ \A j \in (pos + 1)..(i - 1) : s[j] # ch) - 1
    ELSE npos

\* std::string::substr(pos, count) for pos <= size().
substr(s, pos, count) == SubSeq(s, pos + 1, Min(Len(s), pos + count))

\* std::string::substr(pos) for pos <= size().
substr_from(s, pos) == SubSeq(s, pos + 1, Len(s))

\* std::count(s.begin() + from, s.end(), ch).
count(s, from, ch) == Cardinality({i \in (from + 1)..Len(s) : s[i] = ch})

\* The 0-based index of the last '/' of s, npos when there is none.
LastSlash(s) ==
    IF \E i \in 1..Len(s) : s[i] = "/"
    THEN (CHOOSE i \in 1..Len(s) : s[i] = "/" /\ \A j \in (i + 1)..Len(s) : s[j] # "/") - 1
    ELSE npos

\* s without its trailing '/' characters.
RECURSIVE StripTrailingSlashes(_)
StripTrailingSlashes(s) ==
    IF s # <<>> /\ s[Len(s)] = "/" THEN StripTrailingSlashes(SubSeq(s, 1, Len(s) - 1)) ELSE s

\* std::filesystem::path::filename(): what follows the last separator.
filename(p) == substr_from(p, LastSlash(p) + 1)

\* The first component of the key in the place of the directory of the marker.
ParentPathFirstComponent(p) ==
    IF find(p, "/", 0) = npos THEN <<>> ELSE substr(p, 0, find(p, "/", 0))

\* parent_path that keeps the separator before the last component.
ParentPathKeepsSeparator(p) ==
    IF LastSlash(p) = npos THEN <<>> ELSE SubSeq(p, 1, LastSlash(p) + 1)

\* std::filesystem::path::parent_path(): the path without its last component and
\* the separators before it; the root directory alone when nothing else is left.
parent_path(p) ==
    IF LastSlash(p) = npos THEN <<>>
    ELSE LET stripped == StripTrailingSlashes(SubSeq(p, 1, LastSlash(p) + 1))
         IN  IF stripped = <<>> THEN <<"/">> ELSE stripped

(***************************************************************************)
(* The object store and the names the program fixes.                       *)
(***************************************************************************)
PREFIX_PATH_FILE_NAME == <<"p", "r", "e", "f", "i", "x", ".", "p", "a", "t", "h">>

\* Whether the build has the S3 client: the handler of S3Exception exists only then.
USE_AWS_S3 == TRUE

\* object_storage->getCommonKeyPrefix(), the root the iteration starts from.
CommonKeyPrefix == <<"r">>

\* The remote directories that hold a marker object, one per marker.
RemoteDirs == << <<"r", "/", "p">>, <<"r", "/", "q">>, <<"r", "/", "p", "/", "w">>,
                 <<"r", "/", "s">>, <<"r">> >>

MarkerIds == 1..Min(MaxMarkers, Len(RemoteDirs))

\* The key of the marker object of remote directory number u.
MarkerKey(u) == RemoteDirs[u] \o <<"/">> \o PREFIX_PATH_FILE_NAME

\* Objects of the store that are not marker objects; the last one has a file
\* name that only ends with the marker file name.
FileKeys == { <<"r", "/", "p", "/", "f">>,
              <<"r", "/", "x">> \o PREFIX_PATH_FILE_NAME }

\* The local paths a marker object's body may hold.
LocalPaths == << <<"/", "a", "/">>,
                 <<"/", "a", "/", "b", "/">>,
                 <<"/", "a", "/", "c", "/">>,
                 <<"/", "a", "/", "b", "/", "c", "/">>,
                 <<"/", "a", "b", "/">> >>

\* The bodies the loader's store draws from.
StoreBodies == {LocalPaths[i] : i \in 1..Min(MaxMarkers + 1, Len(LocalPaths))}

\* The keys of S in the order of the object store's listing (byte order).
RECURSIVE SortKeys(_)
SortKeys(S) ==
    IF S = {} THEN <<>>
    ELSE LET least == CHOOSE k \in S : \A o \in S : StrCompare(k, o) <= 0
         IN  <<least>> \o SortKeys(S \ {least})

\* What object_storage->iterate(root, 0) goes through.
ObjectKeys == SortKeys({k \in FileKeys \cup {MarkerKey(u) : u \in MarkerIds} :
                            starts_with(k, CommonKeyPrefix)})

\* The unit of work of a marker key.
UnitOf(key) == CHOOSE u \in MarkerIds : MarkerKey(u) = key

(***************************************************************************)
(* PathMap, an ordered map from local path to remote prefix, kept as the   *)
(* sequence of its entries in key order.                                   *)
(***************************************************************************)
Entry(k, v) == [first |-> k, second |-> v]

\* The order of the keys of the Path Map: the lexicographic order of the bytes
\* of the local paths.  -1, 0 or 1.
KeyCompare(a, b) == StrCompare(a, b)

\* std::map::find by key equivalence: the index of the entry, 0 when absent.
MapFind(m, k) ==
    IF \E i \in 1..Len(m) : KeyCompare(m[i].first, k) = 0
    THEN CHOOSE i \in 1..Len(m) : KeyCompare(m[i].first, k) = 0
    ELSE 0

\* std::map::lower_bound: the index of the first entry whose key is not less
\* than k, Len(m) + 1 for end().
lower_bound(m, k) ==
    IF \E i \in 1..Len(m) : KeyCompare(m[i].first, k) >= 0
    THEN CHOOSE i \in 1..Len(m) :
             /\ KeyCompare(m[i].first, k) >= 0
             /\ \A j \in 1..(i - 1) : KeyCompare(m[j].first, k) < 0
    ELSE Len(m) + 1

\* emplace as insert_or_assign would do it: a present key gets the new entry.
EmplaceOverwrite(m, k, v) ==
    IF MapFind(m, k) # 0
    THEN [m EXCEPT ![MapFind(m, k)] = Entry(k, v)]
    ELSE LET pos == lower_bound(m, k)
         IN  SubSeq(m, 1, pos - 1) \o <<Entry(k, v)>> \o SubSeq(m, pos, Len(m))

\* emplace that settles a conflict by dropping both: a present key is erased.
EmplaceErasesOnConflict(m, k, v) ==
    IF MapFind(m, k) # 0
    THEN SubSeq(m, 1, MapFind(m, k) - 1) \o SubSeq(m, MapFind(m, k) + 1, Len(m))
    ELSE LET pos == lower_bound(m, k)
         IN  SubSeq(m, 1, pos - 1) \o <<Entry(k, v)>> \o SubSeq(m, pos, Len(m))

\* std::map::emplace(k, v): the map afterwards.  A present key keeps its entry.
emplace(m, k, v) ==
    IF MapFind(m, k) # 0 THEN m
    ELSE LET pos == lower_bound(m, k)
         IN  SubSeq(m, 1, pos - 1) \o <<Entry(k, v)>> \o SubSeq(m, pos, Len(m))

\* The bool of the pair emplace returns: whether the insertion took place.
emplace_inserted(m, k) == MapFind(m, k) = 0

\* The entries of a map, as a set.
MapEntries(m) == {m[i] : i \in 1..Len(m)}

(***************************************************************************)
(* State.                                                                  *)
(***************************************************************************)
VARIABLES
    is_write_once,  \* object_storage->isWriteOnce()
    store,          \* the body of each marker object
    removed,        \* the markers another process has removed since the
                    \* iteration met them
    pc,             \* where the object's life is: "start", "iterate", "check",
                    \* "attached", "failed", "detached"
    it_pos,         \* the iterator of loadPathPrefixMap: an index into ObjectKeys
    num_files,      \* num_files of loadPathPrefixMap
    ust,            \* per unit: "idle", "scheduled", "read", "locked", "done", "failed"
    ulp,            \* per unit: local_path, the string read from the marker
    uout,           \* per unit: how its read of the marker ended, "none" before
    mutex,          \* the std::mutex of loadPathPrefixMap: its owner, 0 when free
    result,         \* result of loadPathPrefixMap
    warnings,       \* the conflict warnings logged, in their order
    first_error,    \* the first exception the runner recorded
    ctor_error,     \* the exception the constructor ended with
    path_map,       \* the object's path_map
    keys_generator, \* whether object_storage->setKeysGenerator was called
    metric,         \* CurrentMetrics of directory_map_size, relative to its
                    \* value before the construction
    metric_added,   \* what loadPathPrefixMap added to the metric
    metric_subbed,  \* what the destructor subtracted from the metric
    inserted,       \* directories the key-generation collaborator added
    ins_order,      \* the units in the order of their emplace
    fail_order,     \* the units in the order of their fatal read errors
    query,          \* the arguments of the last getDirectChildrenOnDisk
    children,       \* duplicates_filter of the last getDirectChildrenOnDisk
    returned,       \* the vector the last getDirectChildrenOnDisk returned
    metadata_mutex, \* the object's SharedMutex: who holds it shared, whether
                    \* it is held exclusive
    listing,        \* per listing thread: where its getDirectChildrenOnDisk
                    \* is, its iterator, its table, the entries it has read
    insertion       \* where the key-generation collaborator's insertion is

vars == <<is_write_once, store, removed, pc, it_pos, num_files, ust, ulp, uout, mutex,
          result, warnings, first_error, ctor_error, path_map, keys_generator, metric,
          metric_added, metric_subbed, inserted, ins_order, fail_order, query,
          children, returned, metadata_mutex, listing, insertion>>

loaderVars == <<removed, it_pos, num_files, ust, ulp, uout, mutex, result, warnings,
                first_error, ins_order, fail_order>>
queryVars == <<query, children, returned>>
lockVars == <<metadata_mutex, listing, insertion>>

NoError == [unit |-> 0, code |-> "none"]
NoQuery == [storage_key |-> <<>>, remote_paths |-> {}, local_path |-> <<>>, asked |-> FALSE]

\* The threads that list directories at the same time.
Listers == 1..MaxListers

\* A field of a map entry that is not written yet.
Unset == <<>>

NoListing == [pc |-> "idle", local_path |-> <<>>, it |-> 0, table |-> <<>>,
              seen |-> {}, names |-> {}]
NoInsertion == [pc |-> "idle", dir |-> 0]

\* metadata_mutex as constructed, no listing and no insertion under way.
Unlocked ==
    /\ metadata_mutex = [shared |-> {}, exclusive |-> FALSE]
    /\ listing = [l \in Listers |-> NoListing]
    /\ insertion = NoInsertion

\* What a read of a marker object ends with: the body, the S3 error of a key
\* that is gone, another S3 error, or another exception.
ReadOutcomes == {"ok", "NO_SUCH_KEY", "S3_ERROR", "IO_ERROR"}

Init ==
    /\ is_write_once \in BOOLEAN
    /\ store \in [MarkerIds -> StoreBodies]
    /\ removed = {}
    /\ pc = "start"
    /\ it_pos = 1
    /\ num_files = 0
    /\ ust = [u \in MarkerIds |-> "idle"]
    /\ ulp = [u \in MarkerIds |-> <<>>]
    /\ uout = [u \in MarkerIds |-> "none"]
    /\ mutex = 0
    /\ result = <<>>
    /\ warnings = <<>>
    /\ first_error = NoError
    /\ ctor_error = NoError
    /\ path_map = <<>>
    /\ keys_generator = FALSE
    /\ metric = 0
    /\ metric_added = 0
    /\ metric_subbed = 0
    /\ inserted = 0
    /\ ins_order = <<>>
    /\ fail_order = <<>>
    /\ query = NoQuery
    /\ children = {}
    /\ returned = <<>>
    /\ Unlocked

(***************************************************************************)
(* loadPathPrefixMap.                                                      *)
(***************************************************************************)
\* The constructor's member initializer calls loadPathPrefixMap: the iteration
\* of the object store begins.
LoadBegin ==
    /\ pc = "start"
    /\ pc' = "iterate"
    /\ UNCHANGED <<lockVars, is_write_once, store, loaderVars, ctor_error, path_map,
                   keys_generator, metric, metric_added, metric_subbed, inserted,
                   queryVars>>

\* One round of the for loop: count the file, and schedule a unit of work when
\* its file name is the marker file name.
IterateNext ==
    /\ pc = "iterate"
    /\ it_pos <= Len(ObjectKeys)
    /\ LET path == ObjectKeys[it_pos]
       IN  /\ num_files' = num_files + 1
           /\ it_pos' = it_pos + 1
           /\ IF filename(path) # PREFIX_PATH_FILE_NAME
              THEN UNCHANGED ust
              ELSE ust' = [ust EXCEPT ![UnitOf(path)] = "scheduled"]
    /\ UNCHANGED <<lockVars, is_write_once, store, removed, pc, ulp, uout, mutex, result, warnings,
                   first_error, ctor_error, path_map, keys_generator, metric,
                   metric_added, metric_subbed, inserted, ins_order, fail_order,
                   queryVars>>

\* The runner keeps the first exception a unit of work ends with.
RunnerRecord(err) == IF first_error = NoError THEN err ELSE first_error

\* Whether every unit of work the runner was given has ended.
RunnerAllFinished == \A u \in MarkerIds : ust[u] \in {"idle", "done", "failed"}

\* No exception of a read is caught and dropped.
SwallowedNever(outcome) == FALSE

\* Every S3Exception of a read is caught and dropped, whatever its error code.
SwallowedAnyS3Exception(outcome) == USE_AWS_S3 /\ outcome \in {"NO_SUCH_KEY", "S3_ERROR"}

\* Whether the catch blocks drop the exception of a read: the S3Exception with
\* the error code NO_SUCH_KEY, in a build with S3.
Swallowed(outcome) == USE_AWS_S3 /\ outcome = "NO_SUCH_KEY"

\* Another process removes a marker the iteration has met and the unit of work
\* has not read.  (A marker removed before that, or created after the iterator
\* has passed its key, is a marker the iteration does not meet; a marker
\* removed after its read is one the load has read.)
RemoveMarker(u) ==
    /\ pc = "iterate"
    /\ ust[u] = "scheduled"
    /\ u \notin removed
    /\ removed' = removed \cup {u}
    /\ UNCHANGED <<lockVars, is_write_once, store, pc, it_pos, num_files, ust, ulp, uout,
                   mutex, result, warnings, first_error, ctor_error, path_map,
                   keys_generator, metric, metric_added, metric_subbed, inserted,
                   ins_order, fail_order, queryVars>>

\* How the read of marker u can end: with the body while the object is there,
\* with "not found" once it is gone, with another error at any time.
CanEndWith(u, outcome) ==
    /\ outcome = "ok" => u \notin removed
    /\ outcome = "NO_SUCH_KEY" => u \in removed

\* The unit reads its marker object, outside of the mutex.  A key that is gone
\* ends the unit without an entry; any other exception leaves the unit.
ReadObject(u) ==
    /\ ust[u] = "scheduled"
    /\ \E outcome \in ReadOutcomes :
        /\ CanEndWith(u, outcome)
        /\ uout' = [uout EXCEPT ![u] = outcome]
        /\ \/ /\ outcome = "ok"
              /\ ust' = [ust EXCEPT ![u] = "read"]
              /\ ulp' = [ulp EXCEPT ![u] = store[u]]
              /\ UNCHANGED <<first_error, fail_order>>
           \/ /\ outcome # "ok"
              /\ Swallowed(outcome)
              /\ ust' = [ust EXCEPT ![u] = "done"]
              /\ UNCHANGED <<ulp, first_error, fail_order>>
           \/ /\ outcome # "ok"
              /\ ~Swallowed(outcome)
              /\ ust' = [ust EXCEPT ![u] = "failed"]
              /\ first_error' = RunnerRecord([unit |-> u, code |-> outcome])
              /\ fail_order' = Append(fail_order, u)
              /\ UNCHANGED ulp
    /\ UNCHANGED <<lockVars, is_write_once, store, removed, pc, it_pos, num_files, mutex, result,
                   warnings, ctor_error, path_map, keys_generator, metric,
                   metric_added, metric_subbed, inserted, ins_order, queryVars>>

\* The lock taken at the top of the unit of work, before the read.
LockBeforeRead(u) ==
    /\ ust[u] = "scheduled"
    /\ mutex = 0
    /\ mutex' = u
    /\ UNCHANGED <<lockVars, is_write_once, store, removed, pc, it_pos, num_files, ust, ulp,
                   uout, result, warnings, first_error, ctor_error, path_map,
                   keys_generator, metric, metric_added, metric_subbed, inserted,
                   ins_order, fail_order, queryVars>>

\* std::lock_guard lock(mutex).
Lock(u) ==
    /\ ust[u] = "read"
    /\ mutex = 0
    /\ mutex' = u
    /\ ust' = [ust EXCEPT ![u] = "locked"]
    /\ UNCHANGED <<lockVars, is_write_once, store, removed, pc, it_pos, num_files, ulp, uout, result,
                   warnings, first_error, ctor_error, path_map, keys_generator,
                   metric, metric_added, metric_subbed, inserted, ins_order,
                   fail_order, queryVars>>

\* The arguments of the LOG_WARNING of unit u: the local path, the remote path
\* it is mapped to already, and the remote path that is ignored.
Warning(u, m) ==
    [unit |-> u, local_path |-> ulp[u], mapped |-> m[MapFind(m, ulp[u])].second,
     ignoring |-> parent_path(MarkerKey(u))]

\* The unit of work with remote_path captured by reference: at its emplace it
\* has the path the iteration has come to, the last one once the loop is over.
EmplaceCapturedByReference(u) ==
    /\ ust[u] = "locked"
    /\ mutex = u
    /\ result' = emplace(result, ulp[u],
                         parent_path(ObjectKeys[Min(it_pos, Len(ObjectKeys))]))
    /\ warnings' = IF emplace_inserted(result, ulp[u]) THEN warnings
                    ELSE Append(warnings, Warning(u, result))
    /\ mutex' = 0
    /\ ust' = [ust EXCEPT ![u] = "done"]
    /\ ins_order' = Append(ins_order, u)
    /\ UNCHANGED <<lockVars, is_write_once, store, removed, pc, it_pos, num_files, ulp, uout,
                   first_error, ctor_error, path_map, keys_generator, metric, metric_added,
                   metric_subbed, inserted, fail_order, queryVars>>

\* result.emplace(local_path, parent_path) under the mutex, the end of the
\* lock's scope, and the warning when the local path was there already.
Emplace(u) ==
    /\ ust[u] = "locked"
    /\ mutex = u
    /\ result' = emplace(result, ulp[u], parent_path(MarkerKey(u)))
    /\ warnings' = IF emplace_inserted(result, ulp[u]) THEN warnings
                    ELSE Append(warnings, Warning(u, result))
    /\ mutex' = 0
    /\ ust' = [ust EXCEPT ![u] = "done"]
    /\ ins_order' = Append(ins_order, u)
    /\ UNCHANGED <<lockVars, is_write_once, store, removed, pc, it_pos, num_files, ulp, uout,
                   first_error, ctor_error, path_map, keys_generator, metric, metric_added,
                   metric_subbed, inserted, fail_order, queryVars>>

\* The size of the map goes to the metric before the first error is rethrown.
PublishBeforeRethrow ==
    /\ pc = "iterate"
    /\ it_pos > Len(ObjectKeys)
    /\ RunnerAllFinished
    /\ metric' = metric + Len(result)
    /\ metric_added' = Len(result)
    /\ IF first_error # NoError
       THEN /\ pc' = "failed"
            /\ ctor_error' = first_error
            /\ UNCHANGED path_map
       ELSE /\ pc' = "check"
            /\ path_map' = result
            /\ UNCHANGED ctor_error
    /\ UNCHANGED <<lockVars, is_write_once, store, loaderVars, keys_generator,
                   metric_subbed, inserted, queryVars>>

\* The load goes on after the loop without waiting for the units of work.
WaitForNone ==
    /\ pc = "iterate"
    /\ it_pos > Len(ObjectKeys)
    /\ IF first_error # NoError
       THEN /\ pc' = "failed"
            /\ ctor_error' = first_error
            /\ UNCHANGED <<path_map, metric, metric_added>>
       ELSE /\ pc' = "check"
            /\ metric' = metric + Len(result)
            /\ metric_added' = Len(result)
            /\ path_map' = result
            /\ UNCHANGED ctor_error
    /\ UNCHANGED <<lockVars, is_write_once, store, loaderVars, keys_generator,
                   metric_subbed, inserted, queryVars>>

\* runner.waitForAllToFinishAndRethrowFirstError() and what follows it: with an
\* exception recorded the load throws and the constructor ends with it;
\* otherwise the size of the map goes to the metric and the map to path_map.
WaitForAllToFinishAndRethrowFirstError ==
    /\ pc = "iterate"
    /\ it_pos > Len(ObjectKeys)
    /\ RunnerAllFinished
    /\ IF first_error # NoError
       THEN /\ pc' = "failed"
            /\ ctor_error' = first_error
            /\ UNCHANGED <<path_map, metric, metric_added>>
       ELSE /\ pc' = "check"
            /\ metric' = metric + Len(result)
            /\ metric_added' = Len(result)
            /\ path_map' = result
            /\ UNCHANGED ctor_error
    /\ UNCHANGED <<lockVars, is_write_once, store, loaderVars, keys_generator,
                   metric_subbed, inserted, queryVars>>

(***************************************************************************)
(* The constructor's body, the key-generation collaborator, the destructor. *)
(***************************************************************************)
\* The body of the constructor, entered once path_map is initialized: a
\* write-once store is refused (the members are destroyed, the destructor's body
\* does not run); otherwise the keys generator is installed.
ConstructorBody ==
    /\ pc = "check"
    /\ IF is_write_once
       THEN /\ pc' = "failed"
            /\ ctor_error' = [unit |-> 0, code |-> "LOGICAL_ERROR"]
            /\ path_map' = <<>>
            /\ UNCHANGED keys_generator
       ELSE /\ pc' = "attached"
            /\ keys_generator' = TRUE
            /\ UNCHANGED <<ctor_error, path_map>>
    /\ UNCHANGED <<lockVars, is_write_once, store, loaderVars, metric, metric_added,
                   metric_subbed, inserted, queryVars>>

\* The directories created after attach, each under a remote prefix of its own.
NewDirectories ==
    << Entry(<<"/", "a", "/", "d", "/">>, <<"r", "/", "n">>),
       Entry(<<"/", "d", "/">>, <<"r", "/", "m">>),
       Entry(<<"/", "a", "/", "b", "/", "d", "/">>, <<"r", "/", "k">>) >>

\* The key-generation collaborator's side adds the entry of a new directory to
\* the shared Path Map, under the exclusive lock.
InsertDirectory ==
    /\ pc = "attached"
    /\ inserted < MaxInserts
    /\ \E i \in 1..Len(NewDirectories) :
        /\ MapFind(path_map, NewDirectories[i].first) = 0
        /\ path_map' = emplace(path_map, NewDirectories[i].first, NewDirectories[i].second)
    /\ inserted' = inserted + 1
    /\ UNCHANGED <<lockVars, is_write_once, store, pc, loaderVars, ctor_error,
                   keys_generator, metric, metric_added, metric_subbed, queryVars>>

\* A destructor that takes back what the load added.
DestructorSubtractsLoaded ==
    /\ pc = "attached"
    /\ pc' = "detached"
    /\ metric' = metric - metric_added
    /\ metric_subbed' = metric_added
    /\ UNCHANGED <<lockVars, is_write_once, store, loaderVars, ctor_error, path_map,
                   keys_generator, metric_added, inserted, queryVars>>

\* The destructor: the metric goes down by path_map->size().
Destructor ==
    /\ pc = "attached"
    /\ pc' = "detached"
    /\ metric' = metric - Len(path_map)
    /\ metric_subbed' = Len(path_map)
    /\ UNCHANGED <<lockVars, is_write_once, store, loaderVars, ctor_error, path_map,
                   keys_generator, metric_added, inserted, queryVars>>

(***************************************************************************)
(* getDirectChildrenOnRewritableDisk.                                      *)
(***************************************************************************)
\* std::unordered_map::emplace on remote_to_local_subdir: a present key stays.
SubdirEmplace(table, v, name) == table @@ (v :> name)

\* The loop over local_path_prefixes with every key of one '/' or more after
\* local_path mapped.
RECURSIVE ScanSubdirsAnyDepth(_, _, _, _)
ScanSubdirsAnyDepth(m, i, local_path, table) ==
    IF i > Len(m) THEN table
    ELSE LET k == m[i].first
             v == m[i].second
         IN  IF ~starts_with(k, local_path) THEN table
             ELSE IF count(k, Len(local_path), "/") < 1
                  THEN ScanSubdirsAnyDepth(m, i + 1, local_path, table)
                  ELSE ScanSubdirsAnyDepth(m, i + 1, local_path,
                           SubdirEmplace(table, v, SubSeq(k, Len(local_path) + 1, Len(k) - 1)))

\* Where the loop over local_path_prefixes that starts at entry i ends: at the
\* first key that does not start with local_path, or at end().
RECURSIVE ScanEnd(_, _, _)
ScanEnd(m, i, local_path) ==
    IF i > Len(m) THEN i
    ELSE IF ~starts_with(m[i].first, local_path) THEN i
         ELSE ScanEnd(m, i + 1, local_path)

\* The loop over local_path_prefixes from entry i on: it stops at the first key
\* that does not start with local_path, and maps the remote prefix of every key
\* with one '/' after local_path to the key's part between local_path and the
\* last character.
RECURSIVE ScanSubdirs(_, _, _, _)
ScanSubdirs(m, i, local_path, table) ==
    IF i > Len(m) THEN table
    ELSE LET k == m[i].first
             v == m[i].second
         IN  IF ~starts_with(k, local_path) THEN table
             ELSE IF count(k, Len(local_path), "/") # 1
                  THEN ScanSubdirs(m, i + 1, local_path, table)
                  ELSE ScanSubdirs(m, i + 1, local_path,
                           SubdirEmplace(table, v, SubSeq(k, Len(local_path) + 1, Len(k) - 1)))

\* remote_to_local_subdir as the first block of the function builds it.
RemoteToLocalSubdir(local_path, local_path_prefixes) ==
    ScanSubdirs(local_path_prefixes, lower_bound(local_path_prefixes, local_path),
                local_path, <<>>)

\* A skip list that skips nothing.
SkipListEmpty == {}

\* skip_list.
SkipList == {PREFIX_PATH_FILE_NAME}

\* The loop's round with the table looked up by the name of the remote
\* subdirectory instead of its key.
ChildNamesLookupByName(storage_key, path, remote_to_local_subdir) ==
    LET child_pos == Len(storage_key)
        slash_pos == find(path, "/", child_pos)
    IN  IF slash_pos = npos
        THEN IF substr_from(path, child_pos) \in SkipList
             THEN {}
             ELSE {substr_from(path, child_pos)}
        ELSE IF substr(path, child_pos, slash_pos - child_pos) \in DOMAIN remote_to_local_subdir
             THEN {remote_to_local_subdir[substr(path, child_pos, slash_pos - child_pos)]}
             ELSE {substr(path, child_pos, slash_pos - child_pos)}

\* The loop's round with the key of an unmapped subdirectory as its name.
ChildNamesWholeKey(storage_key, path, remote_to_local_subdir) ==
    LET child_pos == Len(storage_key)
        slash_pos == find(path, "/", child_pos)
    IN  IF slash_pos = npos
        THEN IF substr_from(path, child_pos) \in SkipList
             THEN {}
             ELSE {substr_from(path, child_pos)}
        ELSE IF substr(path, 0, slash_pos) \in DOMAIN remote_to_local_subdir
             THEN {remote_to_local_subdir[substr(path, 0, slash_pos)]}
             ELSE {substr(path, 0, slash_pos)}

\* What one round of the loop over remote_paths puts into duplicates_filter.
ChildNames(storage_key, path, remote_to_local_subdir) ==
    LET child_pos == Len(storage_key)
        slash_pos == find(path, "/", child_pos)
    IN  IF slash_pos = npos
        THEN IF substr_from(path, child_pos) \in SkipList
             THEN {}
             ELSE {substr_from(path, child_pos)}
        ELSE IF substr(path, 0, slash_pos) \in DOMAIN remote_to_local_subdir
             THEN {remote_to_local_subdir[substr(path, 0, slash_pos)]}
             ELSE {substr(path, child_pos, slash_pos - child_pos)}

\* duplicates_filter after the loop over remote_paths; it holds each name once.
getDirectChildrenOnRewritableDisk(storage_key, remote_paths, local_path, local_path_prefixes) ==
    UNION {ChildNames(storage_key, path, RemoteToLocalSubdir(local_path, local_path_prefixes)) :
               path \in remote_paths}

\* A sequence from its last element to its first.
Reverse(seq) == [i \in 1..Len(seq) |-> seq[Len(seq) + 1 - i]]

\* The vectors that can be made from the elements of an unordered_set: its
\* iteration order is not specified; here two orders, one the other's reverse.
VectorsOf(S) == {SortKeys(S), Reverse(SortKeys(S))}

\* The names of the rounds of the loop over the remote paths, one after the
\* other, each as often as a round gives it.
RECURSIVE NamesInOrder(_, _, _)
NamesInOrder(storage_key, paths, remote_to_local_subdir) ==
    IF paths = <<>> THEN <<>>
    ELSE LET names == ChildNames(storage_key, Head(paths), remote_to_local_subdir)
         IN  (IF names = {} THEN <<>> ELSE <<CHOOSE name \in names : TRUE>>)
                 \o NamesInOrder(storage_key, Tail(paths), remote_to_local_subdir)

\* The returned vector with every round's name pushed back, without a filter.
ReturnedVectorsUnfiltered(storage_key, remote_paths, local_path, local_path_prefixes) ==
    {NamesInOrder(storage_key, SortKeys(remote_paths),
                  RemoteToLocalSubdir(local_path, local_path_prefixes))}

\* The vectors the function can return: the elements of duplicates_filter.
ReturnedVectors(storage_key, remote_paths, local_path, local_path_prefixes) ==
    VectorsOf(getDirectChildrenOnRewritableDisk(storage_key, remote_paths, local_path,
                                                local_path_prefixes))

\* The remote entries a listing may hold.
ListingKeys == { <<"r", "/", "p", "/", "f">>,
                 <<"r", "/", "q", "/", "g">>,
                 <<"r", "/", "t">>,
                 <<"r", "/">> \o PREFIX_PATH_FILE_NAME,
                 <<"r", "/", "b", "/", "h">>,
                 <<"r", "/", "b">>,
                 <<"r", "/">>,
                 <<"r", "/", "p", "/", "w", "/", "z">> }

\* The storage keys and the local directories that are asked for.
StorageKeys == { <<"r", "/">>, <<"r", "/", "p", "/">> }
QueryPaths == { <<"/", "a", "/">>, <<"/", "a", "/", "b", "/">>, <<"/">> }

\* getDirectChildrenOnDisk, on a listing of keys under storage_key.
GetDirectChildrenOnDisk ==
    /\ pc = "attached"
    /\ ~query.asked
    /\ \E storage_key \in StorageKeys, local_path \in QueryPaths :
       \E remote_paths \in SUBSET {k \in ListingKeys : starts_with(k, storage_key)} :
        /\ Cardinality(remote_paths) <= MaxListing
        /\ query' = [storage_key |-> storage_key, remote_paths |-> remote_paths,
                     local_path |-> local_path, asked |-> TRUE]
        /\ children' = getDirectChildrenOnRewritableDisk(storage_key, remote_paths,
                                                         local_path, path_map)
        /\ returned' \in ReturnedVectors(storage_key, remote_paths, local_path, path_map)
    /\ UNCHANGED <<lockVars, is_write_once, store, pc, loaderVars, ctor_error, path_map,
                   keys_generator, metric, metric_added, metric_subbed, inserted>>

(***************************************************************************)
(* Specifications.                                                         *)
(***************************************************************************)
Next ==
    \/ LoadBegin
    \/ IterateNext
    \/ \E u \in MarkerIds : RemoveMarker(u)
    \/ \E u \in MarkerIds : ReadObject(u)
    \/ \E u \in MarkerIds : Lock(u)
    \/ \E u \in MarkerIds : Emplace(u)
    \/ WaitForAllToFinishAndRethrowFirstError
    \/ ConstructorBody
    \/ InsertDirectory
    \/ Destructor

\* The life of one object: construction with its load, the directories added
\* while attached, destruction.
Spec == Init /\ [][Next]_vars

\* The units of S by rising number.
RECURSIVE Rising(_)
Rising(S) ==
    IF S = {} THEN <<>>
    ELSE LET u == CHOOSE x \in S : \A y \in S : x <= y
         IN  <<u>> \o Rising(S \ {u})

\* result after the units of order have done their emplace one after the other.
RECURSIVE LoadInOrder(_, _, _)
LoadInOrder(order, bodies, m) ==
    IF order = <<>> THEN m
    ELSE LoadInOrder(Tail(order), bodies,
                     emplace(m, bodies[Head(order)], parent_path(MarkerKey(Head(order)))))

\* The warnings these units have logged meanwhile.
RECURSIVE WarningsInOrder(_, _, _)
WarningsInOrder(order, bodies, m) ==
    IF order = <<>> THEN <<>>
    ELSE LET u == Head(order)
             rest == WarningsInOrder(Tail(order), bodies,
                                     emplace(m, bodies[u], parent_path(MarkerKey(u))))
         IN  IF emplace_inserted(m, bodies[u]) THEN rest
             ELSE <<[unit |-> u, local_path |-> bodies[u],
                     mapped |-> m[MapFind(m, bodies[u])].second,
                     ignoring |-> parent_path(MarkerKey(u))]>> \o rest

\* The attached object after a load in which the markers of present were read,
\* in the given order, and the other markers were gone.
Attached(bodies, present, order) ==
    /\ is_write_once = FALSE
    /\ store = bodies
    /\ removed = MarkerIds \ present
    /\ pc = "attached"
    /\ it_pos = Len(ObjectKeys) + 1
    /\ num_files = Len(ObjectKeys)
    /\ ust = [u \in MarkerIds |-> "done"]
    /\ ulp = [u \in MarkerIds |-> IF u \in present THEN bodies[u] ELSE <<>>]
    /\ uout = [u \in MarkerIds |-> IF u \in present THEN "ok" ELSE "NO_SUCH_KEY"]
    /\ mutex = 0
    /\ result = LoadInOrder(order, bodies, <<>>)
    /\ warnings = WarningsInOrder(order, bodies, <<>>)
    /\ first_error = NoError
    /\ ctor_error = NoError
    /\ path_map = result
    /\ keys_generator = TRUE
    /\ metric = Len(result)
    /\ metric_added = Len(result)
    /\ metric_subbed = 0
    /\ inserted = 0
    /\ ins_order = order
    /\ fail_order = <<>>

\* The objects the resolver is asked on: attached, with a Path Map that a load
\* of at most MaxEntries markers built.  The markers that were read carry
\* pairwise distinct local paths, so the map is the same for every order of the
\* units, and every map a load can build is the map of one of these objects.
ResolverInit ==
    /\ \E bodies \in [MarkerIds -> {LocalPaths[i] : i \in 1..Len(LocalPaths)}] :
       \E present \in SUBSET MarkerIds :
        /\ Cardinality(present) <= MaxEntries
        /\ \A u \in MarkerIds \ present : bodies[u] = LocalPaths[1]
        /\ \A u, v \in present : bodies[u] = bodies[v] => u = v
        /\ Attached(bodies, present, Rising(present))
    /\ query = NoQuery
    /\ children = {}
    /\ returned = <<>>
    /\ Unlocked

ResolverNext == GetDirectChildrenOnDisk

\* The resolver on its own: every query on every such object.
ResolverSpec == ResolverInit /\ [][ResolverNext]_vars

(***************************************************************************)
(* Listings and insertions at the same time, under metadata_mutex.         *)
(***************************************************************************)
\* SharedMutex: the shared lock is given while nobody holds the exclusive one,
\* the exclusive lock while nobody holds either.
CanLockShared(m) == ~m.exclusive
CanLockExclusive(m) == ~m.exclusive /\ m.shared = {}

\* The listing every thread is asked for: the listing of "r/" of the example.
ConcurrentStorageKey == <<"r", "/">>
ConcurrentListing == { <<"r", "/", "p", "/", "f">>, <<"r", "/", "q", "/", "g">>,
                       <<"r", "/", "t">>, <<"r", "/">> \o PREFIX_PATH_FILE_NAME }

\* The start of the scan without the shared lock.
ListStartUnlocked(l) ==
    /\ pc = "attached"
    /\ listing[l].pc = "idle"
    /\ \E local_path \in QueryPaths :
        listing' = [listing EXCEPT ![l] =
                       [NoListing EXCEPT !.pc = "scan", !.local_path = local_path,
                                         !.it = lower_bound(path_map, local_path)]]
    /\ UNCHANGED <<is_write_once, store, pc, loaderVars, ctor_error, path_map,
                   keys_generator, metric, metric_added, metric_subbed, inserted,
                   queryVars, metadata_mutex, insertion>>

\* std::shared_lock lock(shared_mutex) and the start of the scan at
\* lower_bound(local_path).
ListLockShared(l) ==
    /\ pc = "attached"
    /\ listing[l].pc = "idle"
    /\ CanLockShared(metadata_mutex)
    /\ \E local_path \in QueryPaths :
        listing' = [listing EXCEPT ![l] =
                       [NoListing EXCEPT !.pc = "scan", !.local_path = local_path,
                                         !.it = lower_bound(path_map, local_path)]]
    /\ metadata_mutex' = [metadata_mutex EXCEPT !.shared = @ \cup {l}]
    /\ UNCHANGED <<is_write_once, store, pc, loaderVars, ctor_error, path_map,
                   keys_generator, metric, metric_added, metric_subbed, inserted,
                   queryVars, insertion>>

\* One round of the scan: the entry under the iterator is read; it is mapped
\* when it has one '/' after local_path; the iterator moves on.
ListScanStep(l) ==
    /\ listing[l].pc = "scan"
    /\ listing[l].it <= Len(path_map)
    /\ starts_with(path_map[listing[l].it].first, listing[l].local_path)
    /\ LET k == path_map[listing[l].it].first
           v == path_map[listing[l].it].second
           local_path == listing[l].local_path
       IN  listing' = [listing EXCEPT
               ![l].seen = @ \cup {path_map[listing[l].it]},
               ![l].it = @ + 1,
               ![l].table = IF count(k, Len(local_path), "/") # 1 THEN @
                            ELSE SubdirEmplace(@, v, SubSeq(k, Len(local_path) + 1,
                                                            Len(k) - 1))]
    /\ UNCHANGED <<is_write_once, store, pc, loaderVars, ctor_error, path_map,
                   keys_generator, metric, metric_added, metric_subbed, inserted,
                   queryVars, metadata_mutex, insertion>>

\* The end of the scan, at end() or at the first key that does not start with
\* local_path, which is read as well: the shared lock is released.
ListUnlockShared(l) ==
    /\ listing[l].pc = "scan"
    /\ \/ /\ listing[l].it > Len(path_map)
          /\ listing' = [listing EXCEPT ![l].pc = "unlocked"]
       \/ /\ listing[l].it <= Len(path_map)
          /\ ~starts_with(path_map[listing[l].it].first, listing[l].local_path)
          /\ listing' = [listing EXCEPT ![l].pc = "unlocked",
                                        ![l].seen = @ \cup {path_map[listing[l].it]}]
    /\ metadata_mutex' = [metadata_mutex EXCEPT !.shared = @ \ {l}]
    /\ UNCHANGED <<is_write_once, store, pc, loaderVars, ctor_error, path_map,
                   keys_generator, metric, metric_added, metric_subbed, inserted,
                   queryVars, insertion>>

\* The loop over remote_paths with the table of the scan, and the return.
ListReturn(l) ==
    /\ listing[l].pc = "unlocked"
    /\ listing' = [listing EXCEPT
           ![l].pc = "done",
           ![l].names = UNION {ChildNames(ConcurrentStorageKey, path, listing[l].table) :
                                   path \in ConcurrentListing}]
    /\ UNCHANGED <<is_write_once, store, pc, loaderVars, ctor_error, path_map,
                   keys_generator, metric, metric_added, metric_subbed, inserted,
                   queryVars, metadata_mutex, insertion>>

\* The entry of key k with its remote prefix written.
FormEntry(m, k, v) == [m EXCEPT ![MapFind(m, k)].second = v]

\* The key-generation collaborator takes the exclusive lock for a new directory.
InsertLockExclusive ==
    /\ pc = "attached"
    /\ insertion.pc = "idle"
    /\ inserted < MaxInserts
    /\ CanLockExclusive(metadata_mutex)
    /\ \E i \in 1..Len(NewDirectories) :
        /\ MapFind(path_map, NewDirectories[i].first) = 0
        /\ insertion' = [pc |-> "locked", dir |-> i]
    /\ metadata_mutex' = [metadata_mutex EXCEPT !.exclusive = TRUE]
    /\ UNCHANGED <<is_write_once, store, pc, loaderVars, ctor_error, path_map,
                   keys_generator, metric, metric_added, metric_subbed, inserted,
                   queryVars, listing>>

\* The insertion is not one step of the memory: the entry is in the map with its
\* key first, and its remote prefix is written after that.
InsertLinkEntry ==
    /\ insertion.pc = "locked"
    /\ path_map' = emplace(path_map, NewDirectories[insertion.dir].first, Unset)
    /\ insertion' = [insertion EXCEPT !.pc = "linked"]
    /\ UNCHANGED <<is_write_once, store, pc, loaderVars, ctor_error,
                   keys_generator, metric, metric_added, metric_subbed, inserted,
                   queryVars, metadata_mutex, listing>>

InsertFormEntry ==
    /\ insertion.pc = "linked"
    /\ path_map' = FormEntry(path_map, NewDirectories[insertion.dir].first,
                             NewDirectories[insertion.dir].second)
    /\ insertion' = [insertion EXCEPT !.pc = "formed"]
    /\ UNCHANGED <<is_write_once, store, pc, loaderVars, ctor_error,
                   keys_generator, metric, metric_added, metric_subbed, inserted,
                   queryVars, metadata_mutex, listing>>

\* The exclusive lock is released once the entry is whole.
InsertUnlockExclusive ==
    /\ insertion.pc = "formed"
    /\ insertion' = NoInsertion
    /\ inserted' = inserted + 1
    /\ metadata_mutex' = [metadata_mutex EXCEPT !.exclusive = FALSE]
    /\ UNCHANGED <<is_write_once, store, pc, loaderVars, ctor_error, path_map,
                   keys_generator, metric, metric_added, metric_subbed,
                   queryVars, listing>>

\* The attached object the threads work on: marker u held the u-th local path,
\* and every marker was read, in rising order.
ConcurrentInit ==
    /\ Attached([u \in MarkerIds |-> LocalPaths[u]], MarkerIds, Rising(MarkerIds))
    /\ query = NoQuery
    /\ children = {}
    /\ returned = <<>>
    /\ Unlocked

ConcurrentNext ==
    \/ \E l \in Listers : ListLockShared(l)
    \/ \E l \in Listers : ListScanStep(l)
    \/ \E l \in Listers : ListUnlockShared(l)
    \/ \E l \in Listers : ListReturn(l)
    \/ InsertLockExclusive
    \/ InsertLinkEntry
    \/ InsertFormEntry
    \/ InsertUnlockExclusive

\* Listing threads and the inserting collaborator on one attached object.
ConcurrentSpec == ConcurrentInit /\ [][ConcurrentNext]_vars

(***************************************************************************)
(* Properties of the load and of the object's life, checked under Spec.    *)
(***************************************************************************)
FatalOutcomes == {"S3_ERROR", "IO_ERROR"}

\* loadPathPrefixMap has ended, by return or by exception.
LoadFinished == pc \notin {"start", "iterate"}

\* loadPathPrefixMap has returned its map.
LoadReturned == LoadFinished /\ ctor_error.code \notin FatalOutcomes

\* Every marker was read, and no two bodies are the same local path.
AllReadAndDistinct ==
    /\ \A u \in MarkerIds : uout[u] = "ok"
    /\ \A u, v \in MarkerIds : u # v => store[u] # store[v]

\* C1: when every marker is read and the bodies are pairwise distinct local
\* paths, the map the load returns, whatever the interleaving of the units, has
\* as many entries as there are markers, and its entries are exactly the pairs
\* of a marker's body and the remote directory that holds the marker.
C1_DistinctMarkersLoadedExactly ==
    (LoadReturned /\ AllReadAndDistinct) =>
        /\ Len(result) = Cardinality(MarkerIds)
        /\ MapEntries(result) = {Entry(store[u], RemoteDirs[u]) : u \in MarkerIds}
        /\ pc \in {"check", "attached"} /\ inserted = 0 => path_map = result

C1_Witness ==
    /\ pc = "check"
    /\ AllReadAndDistinct
    /\ Len(path_map) = Cardinality(MarkerIds)
    /\ store[1] = <<"/", "a", "/", "b", "/">>

\* The units that have done their emplace, and the place of each in the order.
Emplaced == {ins_order[i] : i \in 1..Len(ins_order)}
PlaceOf(u) == CHOOSE i \in 1..Len(ins_order) : ins_order[i] = u

\* The unit that was first to emplace the local path of u.
FirstFor(u) ==
    CHOOSE f \in Emplaced :
        /\ ulp[f] = ulp[u]
        /\ \A g \in Emplaced : ulp[g] = ulp[u] => PlaceOf(f) <= PlaceOf(g)

\* C2: of the markers that carry the same local path the one whose unit came
\* first to its emplace gives the entry; every later one is dropped with one
\* warning that names the kept and the ignored remote path; the number of
\* entries is the number of distinct local paths.
C2_FirstInsertedWins ==
    /\ Len(result) = Cardinality({u \in Emplaced : FirstFor(u) = u})
    /\ \A u \in Emplaced :
        /\ Entry(ulp[FirstFor(u)], RemoteDirs[FirstFor(u)]) \in MapEntries(result)
        /\ Cardinality({i \in 1..Len(warnings) : warnings[i].unit = u})
               = IF FirstFor(u) = u THEN 0 ELSE 1
        /\ \A i \in 1..Len(warnings) : warnings[i].unit = u =>
               /\ warnings[i].mapped = RemoteDirs[FirstFor(u)]
               /\ warnings[i].ignoring = RemoteDirs[u]

C2_Witness ==
    /\ pc = "attached"
    /\ Len(ins_order) = Cardinality(MarkerIds)
    /\ Len(path_map) = 1
    /\ Len(warnings) = Cardinality(MarkerIds) - 1
    /\ ins_order[1] # 1

C4_WriteOnceRejectedBeforeScan ==
    is_write_once =>
        /\ pc \in {"start", "failed"}
        /\ it_pos = 1
        /\ num_files = 0
        /\ \A u \in MarkerIds : ust[u] = "idle" /\ uout[u] = "none"

\* C5: a constructor that ends with an error leaves the metric at its value
\* before the construction and no keys generator on the object store.
C5_FailedConstructionLeavesNothing ==
    pc = "failed" => (metric = 0 /\ ~keys_generator)

\* C6 as stated: the destructor subtracts what the load added, so the metric is
\* back at its value before the attach.
C6_DetachSubtractsWhatLoadAdded ==
    pc = "detached" => (metric_subbed = metric_added /\ metric = 0)

\* C6: the load adds the size of the map it returns; the destructor subtracts
\* the size the Path Map has at that moment, which is what the load added plus
\* the directories inserted since, and equals it only when none was inserted.
C6_DetachSubtractsCurrentSize ==
    /\ pc \in {"check", "attached", "detached"} =>
           (metric_added = Len(result) /\ Len(path_map) = Len(result) + inserted)
    /\ pc \in {"check", "attached"} => metric = metric_added
    /\ pc = "detached" =>
           /\ metric_subbed = Len(path_map)
           /\ metric_subbed = metric_added + inserted
           /\ metric = 0 - inserted

C6_Witness ==
    /\ pc = "detached"
    /\ inserted > 0
    /\ metric_added > 0

\* C7: the load returns or throws only when no unit is pending or running, and
\* of several fatal errors the one recorded first is the one that is thrown.
C7_DrainedAndFirstErrorSurfaced ==
    LoadFinished =>
        /\ \A u \in MarkerIds : ust[u] \in {"done", "failed"}
        /\ mutex = 0
        /\ fail_order # <<>> =>
               /\ pc = "failed"
               /\ ctor_error = [unit |-> Head(fail_order), code |-> uout[Head(fail_order)]]
        /\ fail_order = <<>> => ctor_error.code \notin FatalOutcomes

C7_Witness ==
    /\ pc = "failed"
    /\ Len(fail_order) = Cardinality(MarkerIds)
    /\ Head(fail_order) # 1
    /\ ctor_error.unit = Head(fail_order)

(***************************************************************************)
(* Properties of the resolver, checked under ResolverSpec.                 *)
(***************************************************************************)
\* Whether the part of path after storage_key holds a separator, and where the
\* first one is (an index from 1).
HasSeparator(storage_key, path) ==
    \E i \in (Len(storage_key) + 1)..Len(path) : path[i] = "/"
FirstSeparator(storage_key, path) ==
    CHOOSE i \in (Len(storage_key) + 1)..Len(path) :
        path[i] = "/" /\ \A j \in (Len(storage_key) + 1)..(i - 1) : path[j] # "/"

\* The part of path after storage_key, the key of its remote subdirectory and
\* that subdirectory's remote name.
KeySuffix(storage_key, path) == SubSeq(path, Len(storage_key) + 1, Len(path))
RemoteSubdirKey(storage_key, path) == SubSeq(path, 1, FirstSeparator(storage_key, path) - 1)
RemoteName(storage_key, path) ==
    SubSeq(path, Len(storage_key) + 1, FirstSeparator(storage_key, path) - 1)

\* k is local_path followed by one name and a separator.
ImmediateChild(k, local_path) ==
    /\ Len(k) > Len(local_path) + 1
    /\ SubSeq(k, 1, Len(local_path)) = local_path
    /\ k[Len(k)] = "/"
    /\ \A i \in (Len(local_path) + 1)..(Len(k) - 1) : k[i] # "/"
LocalName(k, local_path) == SubSeq(k, Len(local_path) + 1, Len(k) - 1)

\* The entries of the Path Map that are immediate children of the queried
\* directory and have the remote subdirectory of path as their remote prefix.
MappedChildren(path) ==
    {e \in MapEntries(path_map) :
        /\ ImmediateChild(e.first, query.local_path)
        /\ e.second = RemoteSubdirKey(query.storage_key, path)}

\* The names a remote entry stands for.
NamesOf(path) ==
    IF ~HasSeparator(query.storage_key, path)
    THEN IF KeySuffix(query.storage_key, path) = PREFIX_PATH_FILE_NAME
         THEN {}
         ELSE {KeySuffix(query.storage_key, path)}
    ELSE IF MappedChildren(path) # {}
         THEN {LocalName(e.first, query.local_path) : e \in MappedChildren(path)}
         ELSE {RemoteName(query.storage_key, path)}

\* The example: directory "/a/" with the map {"/a/b/" -> "r/p", "/a/c/" -> "r/q"}
\* and the listing of "r/" with a file under each of the two, a file "t" and the
\* marker file.
ExampleAsked ==
    /\ query.asked
    /\ query.storage_key = <<"r", "/">>
    /\ query.local_path = <<"/", "a", "/">>
    /\ query.remote_paths = { <<"r", "/", "p", "/", "f">>, <<"r", "/", "q", "/", "g">>,
                              <<"r", "/", "t">>, <<"r", "/">> \o PREFIX_PATH_FILE_NAME }
    /\ MapEntries(path_map) = { Entry(<<"/", "a", "/", "b", "/">>, <<"r", "/", "p">>),
                                Entry(<<"/", "a", "/", "c", "/">>, <<"r", "/", "q">>) }

\* C8: a remote entry under a subdirectory whose key is the remote prefix of an
\* immediate child directory of the queried local path is reported under that
\* child's local name, and the remote name is reported only if another entry
\* stands for it; in the example the result is exactly {"b", "c", "t"}.
C8_MappedSubdirectoryReportedByLocalName ==
    query.asked =>
        /\ \A path \in query.remote_paths :
               (HasSeparator(query.storage_key, path) /\ MappedChildren(path) # {}) =>
                   /\ \A e \in MappedChildren(path) :
                          LocalName(e.first, query.local_path) \in children
                   /\ RemoteName(query.storage_key, path) \in children =>
                          \E other \in query.remote_paths :
                              RemoteName(query.storage_key, path) \in NamesOf(other)
        /\ ExampleAsked => children = { <<"b">>, <<"c">>, <<"t">> }

C8_Witness ==
    /\ ExampleAsked
    /\ children = { <<"b">>, <<"c">>, <<"t">> }

\* C9: a remote entry under a subdirectory whose key is the remote prefix of no
\* such Path Map entry is reported under the subdirectory's remote name, the
\* part of the key between the queried prefix and the first separator after it.
C9_UnmappedSubdirectoryReportedByRemoteName ==
    query.asked =>
        \A path \in query.remote_paths :
            (HasSeparator(query.storage_key, path) /\ MappedChildren(path) = {}) =>
                RemoteName(query.storage_key, path) \in children

C9_Witness ==
    /\ query.asked
    /\ query.storage_key = <<"r", "/">>
    /\ query.local_path = <<"/", "a", "/">>
    /\ <<"r", "/", "b", "/", "h">> \in query.remote_paths
    /\ <<"r", "/", "p", "/", "f">> \in query.remote_paths
    /\ children = { <<"b">>, <<"c">> }

\* C10: a remote entry that is the marker file directly under the queried prefix
\* adds no name to the result, so the result holds the marker file's name only
\* if an entry under a subdirectory stands for it; every other entry without a
\* separator after the prefix is reported as a file name.
C10_MarkerFileNeverReported ==
    query.asked =>
        /\ \A path \in query.remote_paths :
               ~HasSeparator(query.storage_key, path) =>
                   IF KeySuffix(query.storage_key, path) = PREFIX_PATH_FILE_NAME
                   THEN children = getDirectChildrenOnRewritableDisk(
                                       query.storage_key, query.remote_paths \ {path},
                                       query.local_path, path_map)
                   ELSE KeySuffix(query.storage_key, path) \in children
        /\ PREFIX_PATH_FILE_NAME \in children =>
               \E path \in query.remote_paths :
                   /\ HasSeparator(query.storage_key, path)
                   /\ PREFIX_PATH_FILE_NAME \in NamesOf(path)

C10_Witness ==
    /\ query.asked
    /\ query.storage_key = <<"r", "/">>
    /\ query.remote_paths = { <<"r", "/">> \o PREFIX_PATH_FILE_NAME,
                              <<"r", "/", "b">>,
                              <<"r", "/", "t">> }
    /\ children = { <<"t">>, <<"b">> }
    /\ path_map # <<>>

\* The keys of a map.
KeysOf(m) == {m[i].first : i \in 1..Len(m)}

\* The entries the scan of the last query has gone through, by their index.
Visited ==
    lower_bound(path_map, query.local_path)
        .. (ScanEnd(path_map, lower_bound(path_map, query.local_path), query.local_path) - 1)

\* A table as the set of its pairs.
PairsOf(table) == {<<v, table[v]>> : v \in DOMAIN table}

\* C16: the scan from lower_bound(local_path) to the first key that does not
\* start with local_path goes through the entries whose key starts with
\* local_path and through no other; the table maps the remote prefix of every
\* entry that is an immediate child directory of local_path to the child's
\* name, and has nothing else: not the entry of local_path itself, not an entry
\* deeper below it.
C16_TableIsImmediateChildren ==
    query.asked =>
        /\ Visited = {i \in 1..Len(path_map) :
                         starts_with(path_map[i].first, query.local_path)}
        /\ PairsOf(RemoteToLocalSubdir(query.local_path, path_map))
               = {<<e.second, LocalName(e.first, query.local_path)>> :
                      e \in {x \in MapEntries(path_map) :
                                 ImmediateChild(x.first, query.local_path)}}
        /\ \A e \in MapEntries(path_map) :
               ~ImmediateChild(e.first, query.local_path) =>
                   e.second \notin DOMAIN RemoteToLocalSubdir(query.local_path, path_map)

\* A query on a directory that has its own entry, an entry of a child and none
\* of a directory outside.
C16_Witness ==
    /\ query.asked
    /\ query.local_path = <<"/", "a", "/">>
    /\ KeysOf(path_map) = { <<"/", "a", "/">>, <<"/", "a", "/", "b", "/">> }
    /\ Cardinality(DOMAIN RemoteToLocalSubdir(query.local_path, path_map)) = 1
    /\ Visited = {1, 2}

\* The elements of a vector.
ElementsOf(seq) == {seq[i] : i \in 1..Len(seq)}

\* C18: no name is twice in the returned vector, and a name is in it exactly
\* when a remote entry of the listing stands for it: entries under one
\* subdirectory, two subdirectories with one name, a file and a subdirectory
\* with one name give the name once.
C18_EachNameOnce ==
    query.asked =>
        /\ \A i, j \in 1..Len(returned) : returned[i] = returned[j] => i = j
        /\ ElementsOf(returned) = UNION {NamesOf(path) : path \in query.remote_paths}
        /\ ElementsOf(returned) = children

\* A listing with two entries under the subdirectory mapped to "b", one under a
\* subdirectory of the remote name "b" and a file "b": "b" is returned once.
C18_Witness ==
    /\ query.asked
    /\ query.storage_key = <<"r", "/">>
    /\ query.local_path = <<"/", "a", "/">>
    /\ query.remote_paths = { <<"r", "/", "p", "/", "f">>, <<"r", "/", "p", "/", "w", "/", "z">>,
                              <<"r", "/", "b", "/", "h">>, <<"r", "/", "b">> }
    /\ Entry(<<"/", "a", "/", "b", "/">>, <<"r", "/", "p">>) \in MapEntries(path_map)
    /\ returned = << <<"b">> >>

\* A name of one path component: not empty, without a separator.
SingleComponent(name) ==
    /\ name # <<>>
    /\ \A i \in 1..Len(name) : name[i] # "/"

\* C20: when every key of the Path Map ends with a separator and every listed
\* remote key starts with the storage key, every returned name is one path
\* component: not empty and without a separator.
C20_NamesAreSingleComponents ==
    (/\ query.asked
     /\ \A i \in 1..Len(path_map) : path_map[i].first[Len(path_map[i].first)] = "/"
     /\ \A path \in query.remote_paths : starts_with(path, query.storage_key)) =>
        \A name \in ElementsOf(returned) : SingleComponent(name)

(***************************************************************************)
(* Further properties of the load, checked under Spec.                     *)
(***************************************************************************)
\* The markers that carry the local path k.
Claimants(k) == {u \in MarkerIds : store[u] = k}

\* C12: with every marker read, the keys of the map a load returns are the
\* bodies of the markers, and a local path that one marker alone carries has the
\* remote directory of that marker, whatever the order of the units; so two
\* loads of one store differ at most in which of several markers of one local
\* path gives its remote prefix, and that is always one of those markers.
C12_LoadDeterminedByStore ==
    (LoadReturned /\ \A u \in MarkerIds : uout[u] = "ok") =>
        /\ {result[i].first : i \in 1..Len(result)} = {store[u] : u \in MarkerIds}
        /\ \A u \in MarkerIds :
               Claimants(store[u]) = {u} =>
                   Entry(store[u], RemoteDirs[u]) \in MapEntries(result)
        /\ \A i \in 1..Len(result) :
               \E u \in Claimants(result[i].first) : result[i].second = RemoteDirs[u]

\* A load whose units came to their emplace against the order of the keys, with
\* a local path of several markers that has the remote directory of a later one.
C12_Witness ==
    /\ pc = "check"
    /\ \A u \in MarkerIds : uout[u] = "ok"
    /\ \E i \in 1..Len(result) :
           /\ Cardinality(Claimants(result[i].first)) > 1
           /\ \E u \in Claimants(result[i].first) :
                  u > 1 /\ result[i].second = RemoteDirs[u]

\* C13 as stated: the map a successful load returns has the entry of every
\* marker that was not removed during the scan, its body with its directory.
C13_EveryStableMarkerHasItsEntry ==
    LoadReturned =>
        \A u \in MarkerIds \ removed :
            Entry(store[u], RemoteDirs[u]) \in MapEntries(result)

\* C13: the map a successful load returns has the local path of every marker
\* that was not removed during the scan, with the remote directory of a marker
\* that carries this local path and was read: its own when no other such marker
\* was read.  A marker whose local path is not a key of the map was removed
\* during the scan and its read ended with "not found".
C13_EveryStableMarkerHasItsLocalPath ==
    LoadReturned =>
        /\ \A u \in MarkerIds \ removed :
               /\ uout[u] = "ok"
               /\ \E v \in Claimants(store[u]) :
                      /\ uout[v] = "ok"
                      /\ Entry(store[u], RemoteDirs[v]) \in MapEntries(result)
               /\ {v \in Claimants(store[u]) : uout[v] = "ok"} = {u} =>
                      Entry(store[u], RemoteDirs[u]) \in MapEntries(result)
        /\ \A u \in MarkerIds :
               store[u] \notin KeysOf(result) =>
                   (u \in removed /\ uout[u] = "NO_SUCH_KEY")

\* One marker was removed before its read, the other stayed and has its entry.
C13_Witness ==
    /\ pc = "check"
    /\ removed = {1}
    /\ uout[1] = "NO_SUCH_KEY"
    /\ MapEntries(result) = {Entry(store[2], RemoteDirs[2])}

\* A unit whose read of its marker is still to end holds no lock; the unit that
\* holds the lock has read its marker and has not done its emplace; no two
\* units are inside the lock's scope.
NoLockWhileReading ==
    /\ mutex \in MarkerIds \cup {0}
    /\ \A u \in MarkerIds :
        /\ ust[u] = "scheduled" => mutex # u
        /\ mutex = u <=> ust[u] = "locked"
        /\ mutex = u => (uout[u] = "ok" /\ u \notin Emplaced)
    /\ Cardinality({u \in MarkerIds : ust[u] = "locked"}) <= 1

\* A step of the load with the lock held: the holder's emplace, at which the
\* lock is released, or a step of another unit, which leaves map and lock alone.
\* The lock is taken by a unit that has read its marker, and no read ends in a
\* step of the holder.
LockedForOneInsertion ==
    /\ \A u \in MarkerIds :
        mutex = u =>
            \/ /\ mutex' = u
               /\ UNCHANGED <<result, ins_order, warnings>>
               /\ uout'[u] = uout[u]
            \/ /\ mutex' = 0
               /\ result' = emplace(result, ulp[u], RemoteDirs[u])
               /\ ins_order' = Append(ins_order, u)
               /\ uout' = uout
    /\ mutex = 0 /\ mutex' # 0 =>
           /\ uout[mutex'] = "ok"
           /\ UNCHANGED <<result, uout>>

\* C14: during the load a unit that is reading its marker holds no lock, at most
\* one unit holds the lock, and it holds it for the one emplace of its pair of
\* local path and remote prefix only.
C14_LockHeldOnlyForInsertion ==
    []NoLockWhileReading /\ [][LockedForOneInsertion]_vars

\* One unit is inside the lock's scope while the read of another is under way.
C14_Witness ==
    /\ mutex = 2
    /\ ust[1] = "scheduled"
    /\ ust[2] = "locked"

\* Nothing is added to the metric while the load runs or when it ends with the
\* error of a read; a load that has returned has added the size of its map.
MetricFollowsLoad ==
    /\ ~LoadFinished => (metric = 0 /\ metric_added = 0)
    /\ ctor_error.code \in FatalOutcomes => (metric = 0 /\ metric_added = 0)
    /\ LoadReturned => (metric_added = Len(result) /\ RunnerAllFinished)
    /\ pc = "check" => (metric = Len(path_map) /\ path_map = result)

\* The only step that adds to the metric is the return of the load, with every
\* unit of work ended and no error recorded, and it adds the size of the map.
MetricAddedOnce ==
    (metric' > metric \/ metric_added' # metric_added) =>
        /\ pc = "iterate" /\ pc' = "check"
        /\ RunnerAllFinished
        /\ first_error = NoError
        /\ metric_added = 0
        /\ metric_added' = Len(result)
        /\ metric' = metric + Len(result)
        /\ result' = result

\* C15: the load adds to the size metric at most once, after every scheduled
\* unit has ended, and what it adds is the size of the map it returns; a load
\* that ends with the error of a read adds nothing, whatever the units have
\* inserted by then.
C15_MetricPublishedOnceAfterAllUnits ==
    []MetricFollowsLoad /\ [][MetricAddedOnce]_vars

\* A load that ended with the error of a read after a unit had its emplace.
C15_Witness ==
    /\ pc = "failed"
    /\ ctor_error.code \in FatalOutcomes
    /\ Len(result) > 0
    /\ metric = 0

\* No two entries of result have the same local path.
KeysUnique ==
    \A i, j \in 1..Len(result) : result[i].first = result[j].first => i = j

\* A step leaves every entry of result in it, with its remote prefix.
InsertOnly ==
    /\ MapEntries(result) \subseteq MapEntries(result')
    /\ Len(result') >= Len(result)

\* C17: in every state of the load each local path of the map has one remote
\* prefix; an entry that is in the map stays in it with the remote prefix it
\* has, and the size of the map does not go down.
C17_MapIsInsertOnly ==
    []KeysUnique /\ [][InsertOnly]_vars

\* Two units with one local path have done their emplace: the entry of the
\* first is there, the map has not grown by the second.
C17_Witness ==
    /\ pc = "iterate"
    /\ Len(ins_order) = 2
    /\ ulp[1] = ulp[2]
    /\ MapEntries(result) = {Entry(ulp[ins_order[1]], RemoteDirs[ins_order[1]])}

\* No two entries of m have the same remote prefix.
Injective(m) ==
    \A i, j \in 1..Len(m) : m[i].second = m[j].second => i = j

\* The entries of m that are immediate child directories of local_path.
ImmediateChildren(m, local_path) ==
    {e \in MapEntries(m) : ImmediateChild(e.first, local_path)}

FullyFormed(e) == e.first # Unset /\ e.second # Unset

\* C11: in every interleaving of listings under the shared lock and insertions
\* under the exclusive lock, every entry a listing has read in its scan is fully
\* formed, with local path and remote prefix, and no insertion is under way
\* while a listing holds the shared lock.
C11_ListingsSeeWholeEntries ==
    /\ \A l \in Listers : \A e \in listing[l].seen : FullyFormed(e)
    /\ \A l \in Listers : listing[l].pc = "scan" <=> l \in metadata_mutex.shared
    /\ metadata_mutex.shared # {} => (insertion.pc = "idle" /\ ~metadata_mutex.exclusive)
    /\ insertion.pc # "idle" <=> metadata_mutex.exclusive
    /\ metadata_mutex.shared = {} /\ insertion.pc = "idle" =>
           \A i \in 1..Len(path_map) : FullyFormed(path_map[i])

C11_Witness ==
    /\ inserted > 0
    /\ Cardinality(metadata_mutex.shared) > 1
    /\ \E l \in Listers : \E i \in 1..Len(NewDirectories) :
           NewDirectories[i] \in listing[l].seen

====
